---- MODULE Spec2Model ----
(***************************************************************************)
(* VariableDb: a name -> value store with scope-based name resolution,     *)
(* pickle persistence and a class-level registry of unsaved files.         *)
(* Two implementations exist in the repository and both are modelled:      *)
(*   impl = "core"   : src/variabledb/core.py (unsaved_files is a set)      *)
(*   impl = "legacy" : src/variabledb.py      (unsaved_files is a list)     *)
(***************************************************************************)
EXTENDS Integers, Sequences, FiniteSets, TLC

\* ---------------------------------------------------------------- bounds
MaxStores == 2      \* live VariableDb instances created by the caller
MaxList == 3        \* cap on the length of the legacy unsaved_files list
MaxArgs == 2        \* most values passed to one add_multiple call

\* ------------------------------------------------------------ the universe
Impls == {"core", "legacy"}
Names == {"a", "b"}
Paths == {"p.db", "q.db"}
NoName == "None"                 \* Python's None as a resolved name

\* A Python object: its identity, its value, and whether dill can pickle it.
\* x1 and x2 are distinct objects with equal values; x3 cannot be pickled
\* (e.g. a generator: dump raises TypeError).
x1 == [id |-> 1, val |-> 10, picklable |-> TRUE]
x2 == [id |-> 2, val |-> 10, picklable |-> TRUE]
x3 == [id |-> 3, val |-> 30, picklable |-> FALSE]
Objects == {x1, x2, x3}
\* an object created by unpickling: never identical to a caller's object
Loaded(v) == [id |-> 0, val |-> v, picklable |-> TRUE]

\* Python's None as a value (get's default)
PyNone == [id |-> -1, val |-> 0, picklable |-> TRUE]

\* the exception kinds of the handlers
NoExc == "None"

\* impl           which implementation runs
\* scope          the caller's dict that the stores resolve names in (read only)
\* filename, data self.filename and self.data of each live instance
\* files          the content of the file at each path
\* unsaved_files  VariableDb.unsaved_files: a set (core), a list (legacy)
\* sweep          the position of a running save_all_open_files()
\* saved          per path, the entries a successful save() last wrote there
\* last           the last call and what its caller observed of it
VARIABLES impl, scope, filename, data, files, unsaved_files, sweep, saved, last
vars == <<impl, scope, filename, data, files, unsaved_files, sweep, saved, last>>

\* --------------------------------------------------------------- dict helpers
EmptyDict == [n \in {} |-> x1]
DictSet(d, k, v) == [n \in (DOMAIN d) \cup {k} |-> IF n = k THEN v ELSE d[n]]
DictDel(d, k) == [n \in (DOMAIN d) \ {k} |-> d[n]]
ValuesOf(d) == [n \in DOMAIN d |-> d[n].val]

\* the scope is an ordered mapping: a sequence of bindings with distinct names
Bindings == [name : Names, val : Objects]
DistinctNames(sc) == \A i, j \in DOMAIN sc : i # j => sc[i].name # sc[j].name
Scopes ==
  {sc \in UNION {[1..n -> Bindings] : n \in 0..Cardinality(Names)} : DistinctNames(sc)}

\* ------------------------------------------------------------ file contents
Absent == [kind |-> "absent", blob |-> {}]
Truncated == [kind |-> "truncated", blob |-> {}]   \* empty or cut short
Corrupt == [kind |-> "corrupt", blob |-> {}]       \* undecodable bytes
NonDict == [kind |-> "nondict", blob |-> {}]       \* a pickled non-dict
DictFile(b) == [kind |-> "dict", blob |-> b]

\* pickle.dump of a dict: the (name, value) pairs; object identity is lost
Pickle(d) == {<<n, d[n].val>> : n \in DOMAIN d}
Picklable(d) == \A n \in DOMAIN d : d[n].picklable
\* pickle.load of such a blob: a new dict of new objects
Unpickle(b) ==
  [n \in {p[1] : p \in b} |-> Loaded((CHOOSE p \in b : p[1] = n)[2])]

\* --------------------------------------------------------- unsaved_files
InList(u, f) == \E i \in DOMAIN u : u[i] = f
RemoveFirst(u, f) ==
  LET i == CHOOSE k \in DOMAIN u : u[k] = f /\ \A j \in 1..(k-1) : u[j] # f
  IN  [k \in 1..(Len(u) - 1) |-> IF k < i THEN u[k] ELSE u[k + 1]]
InUnsavedOf(u, f) == IF impl = "core" THEN f \in u ELSE InList(u, f)
InUnsaved(f) == InUnsavedOf(unsaved_files, f)
UnsavedPaths(u) == IF impl = "core" THEN u ELSE {u[i] : i \in DOMAIN u}

\* __init__: core adds to the set, legacy appends unconditionally
register(u, f) == IF impl = "core" THEN u \cup {f} ELSE Append(u, f)

add_to_unsaved(u, f) ==
  IF impl = "core" THEN u \cup {f}
  ELSE IF InList(u, f) THEN u ELSE Append(u, f)

\* save's removal: set.discard, or list.remove of the first occurrence if present
discard(u, f) ==
  IF impl = "core" THEN u \ {f}
  ELSE IF InList(u, f) THEN RemoveFirst(u, f) ELSE u

\* --------------------------------------------------------- name resolution
\* faulty variant: the scan keeps going and returns the last matching name
get_variable_name_last(sc, variable) ==
  IF \E i \in DOMAIN sc : sc[i].val.id = variable.id
  THEN sc[CHOOSE i \in DOMAIN sc :
            /\ sc[i].val.id = variable.id
            /\ \A j \in (i+1)..Len(sc) : sc[j].val.id # variable.id].name
  ELSE NoName

get_variable_name(sc, variable) ==
  IF \E i \in DOMAIN sc : sc[i].val.id = variable.id
  THEN sc[CHOOSE i \in DOMAIN sc :
            /\ sc[i].val.id = variable.id
            /\ \A j \in 1..(i-1) : sc[j].val.id # variable.id].name
  ELSE NoName

\* get(name, default): entries[name] if present, else default
get(d, name, default) == IF name \in DOMAIN d THEN d[name] ELSE default

\* ----------------------------------------------------------- save and load
\* Inputs of a save: whether open() fails, and which exception dump raises
\* when the dict holds an object that cannot be pickled.
OpenOutcomes == {"ok", "OSError"}
DumpErrors == {"PicklingError", "TypeError"}
SaveCaught == {"OSError", "PicklingError"}
LoadCaught == {"FileNotFoundError", "UnpicklingError", "ValueError"}

\* faulty variant: save writes only when the path is registered as unsaved
save_if_dirty(fs, u, f, d, io, perr) ==
  IF io = "OSError"
  THEN [files |-> fs, unsaved |-> u, err |-> "OSError", raised |-> NoExc]
  ELSE IF ~InUnsavedOf(u, f)
  THEN [files |-> fs, unsaved |-> u, err |-> NoExc, raised |-> NoExc]
  ELSE IF ~Picklable(d)
  THEN [files |-> [fs EXCEPT ![f] = Truncated], unsaved |-> u, err |-> perr,
        raised |-> IF perr \in SaveCaught THEN NoExc ELSE perr]
  ELSE [files |-> [fs EXCEPT ![f] = DictFile(Pickle(d))],
        unsaved |-> discard(u, f), err |-> NoExc, raised |-> NoExc]

\* save(): result [files, unsaved, err, raised]
save_(fs, u, f, d, io, perr) ==
  IF io = "OSError"
  THEN [files |-> fs, unsaved |-> u, err |-> "OSError", raised |-> NoExc]
  ELSE IF ~Picklable(d)
  THEN [files |-> [fs EXCEPT ![f] = Truncated], unsaved |-> u, err |-> perr,
        raised |-> IF perr \in SaveCaught THEN NoExc ELSE perr]
  ELSE [files |-> [fs EXCEPT ![f] = DictFile(Pickle(d))],
        unsaved |-> discard(u, f), err |-> NoExc, raised |-> NoExc]

\* the exception open()/pickle.load raises for each file content
LoadError(c) ==
  CASE c.kind = "absent" -> "FileNotFoundError"
    [] c.kind = "truncated" -> "EOFError"
    [] c.kind = "corrupt" -> "UnpicklingError"
    [] c.kind = "nondict" -> "ValueError"
    [] OTHER -> NoExc

\* faulty variant: load merges the file's mapping into the entries (dict.update)
load_merge(fs, u, f, d) ==
  LET e == LoadError(fs[f]) IN
  IF e = NoExc
  THEN [data |-> [n \in (DOMAIN d) \cup (DOMAIN Unpickle(fs[f].blob)) |->
                    IF n \in DOMAIN Unpickle(fs[f].blob)
                    THEN Unpickle(fs[f].blob)[n] ELSE d[n]],
        unsaved |-> add_to_unsaved(u, f), err |-> NoExc, raised |-> NoExc]
  ELSE [data |-> d, unsaved |-> u, err |-> e,
        raised |-> IF e \in LoadCaught THEN NoExc ELSE e]

\* load(): result [data, unsaved, err, raised]
load_(fs, u, f, d) ==
  LET e == LoadError(fs[f]) IN
  IF e = NoExc
  THEN [data |-> Unpickle(fs[f].blob), unsaved |-> add_to_unsaved(u, f),
        err |-> NoExc, raised |-> NoExc]
  ELSE [data |-> d, unsaved |-> u, err |-> e,
        raised |-> IF e \in LoadCaught THEN NoExc ELSE e]

\* ------------------------------------------------------------------ state
Stores == DOMAIN filename
Idle == ~sweep.active
\* sweep holds the position of a running save_all_open_files() and, until the
\* caller's next call, what the last one did
\* (start: the paths registered when it began; seen: the paths it has passed
\* over; again: it passed over some path twice; allok: no save of it failed)
NoSweep == [active |-> FALSE, todo |-> {}, idx |-> 0, start |-> {},
            allok |-> TRUE, seen |-> {}, again |-> FALSE]
NoSave == [by |-> 0, vals |-> EmptyDict]

\* What the caller can observe of the last call: the operation, its outcome and
\* how the store's data (d2) and the registry (u2) compare with those before it.
\*   had:  the name the argument of add/delete/replace resolves to was an entry
\*   fresh: load was called on a store whose data was empty
\*   lost: load dropped a key that was an entry before it
\*   rest_same: every entry but the one add/delete/replace names is as before
\*   exc:  __exit__ was called with an exception raised by the with block's body
\*   name: the argument of add_by_name
\*   args: the arguments of add_multiple;  keys0: the entries' keys before it
\*   mapping, overwrite: the arguments of update;  data0: the entries before it
ByValue == {"add", "delete", "replace"}
RestSame(d, d2, k) ==
  /\ (DOMAIN d) \ {k} = (DOMAIN d2) \ {k}
  /\ \A n \in (DOMAIN d) \ {k} : d2[n] = d[n]
Record(op, s, arg, err, raised, d2, u2) ==
  LET d == IF s \in Stores THEN data[s] ELSE EmptyDict IN
  [op |-> op, self |-> s, arg |-> arg, err |-> err, raised |-> raised,
   had |-> op \in ByValue /\ get_variable_name(scope, arg) \in DOMAIN d,
   fresh |-> op = "load" /\ d = EmptyDict,
   lost |-> op = "load" /\ (DOMAIN d) \ (DOMAIN d2) # {},
   data_same |-> d2 = d,
   unsaved_same |-> u2 = unsaved_files,
   rest_same |-> op \in ByValue => RestSame(d, d2, get_variable_name(scope, arg)),
   exc |-> FALSE, name |-> NoName, args |-> <<>>, keys0 |-> {},
   mapping |-> EmptyDict, overwrite |-> FALSE, data0 |-> EmptyDict]

\* What a store can find at its path: nothing, a damaged file, a pickle of
\* something else, or a pickled dict left by an earlier run (OldFile; OddFile
\* is one written from a scope whose key is the empty string).
OldFile == DictFile({<<"a", 10>>})
OddFile == DictFile({<<"", 10>>})
InitFiles == {Absent, Truncated, Corrupt, NonDict, OldFile, OddFile}
StartRecord == [op |-> "start", self |-> 0, arg |-> x1, err |-> NoExc,
                raised |-> NoExc, had |-> FALSE, fresh |-> FALSE, lost |-> FALSE,
                data_same |-> TRUE, unsaved_same |-> TRUE, rest_same |-> TRUE,
                exc |-> FALSE, name |-> NoName, args |-> <<>>, keys0 |-> {},
                mapping |-> EmptyDict, overwrite |-> FALSE, data0 |-> EmptyDict]

\* Several instances and the sweep: no instance exists yet, and an earlier run
\* may have left a file at p.db, whole or cut short.
Init ==
  /\ impl \in Impls
  /\ scope = <<>>
  /\ filename = <<>>
  /\ data = <<>>
  /\ files \in {fs \in [Paths -> {Absent, Truncated, OldFile}] : fs["q.db"] = Absent}
  /\ unsaved_files = IF impl = "core" THEN {} ELSE <<>>
  /\ sweep = NoSweep
  /\ saved = [p \in Paths |-> NoSave]
  /\ last = StartRecord

\* One instance, right after VariableDb("p.db", scope) has returned, for every
\* scope and every content of the file.
InitStore ==
  /\ impl \in Impls
  /\ scope \in Scopes
  /\ filename = <<"p.db">>
  /\ data = <<EmptyDict>>
  /\ files \in {fs \in [Paths -> InitFiles] : fs["q.db"] = Absent}
  /\ unsaved_files = register(IF impl = "core" THEN {} ELSE <<>>, "p.db")
  /\ sweep = NoSweep
  /\ saved = [p \in Paths |-> NoSave]
  /\ last = StartRecord

\* faulty variant: the handler writes the entries d back into the scope
\* (scope.update(self.data)): bound names are rebound, new names are added
RECURSIVE Appended(_, _, _)
Appended(sc, d, todo) ==
  IF todo = {} THEN sc
  ELSE LET n == CHOOSE k \in todo : TRUE IN
       Appended(Append(sc, [name |-> n, val |-> d[n]]), d, todo \ {n})
scope_after_update(sc, d) ==
  Appended([i \in DOMAIN sc |->
              IF sc[i].name \in DOMAIN d
              THEN [name |-> sc[i].name, val |-> d[sc[i].name]] ELSE sc[i]],
           d, (DOMAIN d) \ {sc[i].name : i \in DOMAIN sc})

\* The scope after a handler ran and left the entries d: self.scope is
\* assigned in __init__ only and read in get_variable_name and add_by_name;
\* no handler assigns to it or stores through it.
scope_after(sc, d) == sc

\* VariableDb(filename, scope): the constructor
VariableDb(f) ==
  /\ Idle
  /\ Len(filename) < MaxStores
  /\ impl = "legacy" => Len(unsaved_files) < MaxList
  /\ filename' = Append(filename, f)
  /\ data' = Append(data, EmptyDict)
  /\ unsaved_files' = register(unsaved_files, f)
  /\ last' = Record("init", 0, x1, NoExc, NoExc, EmptyDict, unsaved_files')
  /\ sweep' = NoSweep
  /\ scope' = scope_after(scope, EmptyDict)
  /\ UNCHANGED <<impl, files, saved>>

\* what reaches the caller of a handler whose except clause names `caught`
Raised(e, caught) == IF e = NoExc \/ e \in caught THEN NoExc ELSE e

AddCaught == {"ValueError", "KeyError", "TypeError"}
DeleteCaught == {"ValueError", "KeyError"}
ReplaceCaught == {"ValueError", "KeyError"}

\* the body of add's try block: [data, err]; err = NoExc means the entry was set
add_(sc, d, variable) ==
  LET name == get_variable_name(sc, variable) IN
  IF name = NoName THEN [data |-> d, err |-> "ValueError"]
  ELSE IF name \in DOMAIN d THEN [data |-> d, err |-> "KeyError"]
  ELSE [data |-> DictSet(d, name, variable), err |-> NoExc]

delete_(sc, d, variable) ==
  LET name == get_variable_name(sc, variable) IN
  IF name = NoName THEN [data |-> d, err |-> "ValueError"]
  ELSE IF name \notin DOMAIN d THEN [data |-> d, err |-> "KeyError"]
  ELSE [data |-> DictDel(d, name), err |-> NoExc]

replace_(sc, d, variable) ==
  LET name == get_variable_name(sc, variable) IN
  IF name = NoName THEN [data |-> d, err |-> "ValueError"]
  ELSE IF name \notin DOMAIN d THEN [data |-> d, err |-> "KeyError"]
  ELSE [data |-> DictSet(d, name, variable), err |-> NoExc]

\* faulty variant: the handler marks the path dirty before its checks
Mutate_dirty(op, s, variable, r, caught) ==
  /\ Idle
  /\ data' = [data EXCEPT ![s] = r.data]
  /\ unsaved_files' = add_to_unsaved(unsaved_files, filename[s])
  /\ last' = Record(op, s, variable, r.err, Raised(r.err, caught),
                    data'[s], unsaved_files')
  /\ sweep' = NoSweep
  /\ scope' = scope_after(scope, data'[s])
  /\ UNCHANGED <<impl, filename, files, saved>>

\* a handler that changes one store's data and marks it dirty on success
Mutate(op, s, variable, r, caught) ==
  /\ Idle
  /\ data' = [data EXCEPT ![s] = r.data]
  /\ unsaved_files' = IF r.err = NoExc
                      THEN add_to_unsaved(unsaved_files, filename[s])
                      ELSE unsaved_files
  /\ last' = Record(op, s, variable, r.err, Raised(r.err, caught),
                    data'[s], unsaved_files')
  /\ sweep' = NoSweep
  /\ scope' = scope_after(scope, data'[s])
  /\ UNCHANGED <<impl, filename, files, saved>>

add(s, variable) ==
  Mutate("add", s, variable, add_(scope, data[s], variable), AddCaught)

delete(s, variable) ==
  Mutate("delete", s, variable, delete_(scope, data[s], variable), DeleteCaught)

replace(s, variable) ==
  Mutate("replace", s, variable, replace_(scope, data[s], variable), ReplaceCaught)

\* var_name in self.scope, and self.scope[var_name]
InScope(sc, n) == \E i \in DOMAIN sc : sc[i].name = n
ScopeValue(sc, n) == sc[CHOOSE i \in DOMAIN sc : sc[i].name = n].val

\* faulty variant: a name that is already an entry is bound again
add_by_name_overwrite(sc, d, var_name) ==
  IF ~InScope(sc, var_name) THEN [data |-> d, err |-> "KeyError"]
  ELSE [data |-> DictSet(d, var_name, ScopeValue(sc, var_name)), err |-> NoExc]

\* add_by_name(var_name): both checks raise KeyError, outside any try block
add_by_name_(sc, d, var_name) ==
  IF ~InScope(sc, var_name) THEN [data |-> d, err |-> "KeyError"]
  ELSE IF var_name \in DOMAIN d THEN [data |-> d, err |-> "KeyError"]
  ELSE [data |-> DictSet(d, var_name, ScopeValue(sc, var_name)), err |-> NoExc]

\* only core.py has add_by_name; what it raises reaches the caller
add_by_name(s, var_name) ==
  LET r == add_by_name_(scope, data[s], var_name) IN
  /\ impl = "core"
  /\ Idle
  /\ data' = [data EXCEPT ![s] = r.data]
  /\ unsaved_files' = IF r.err = NoExc
                      THEN add_to_unsaved(unsaved_files, filename[s])
                      ELSE unsaved_files
  /\ last' = [Record("add_by_name", s, x1, r.err, r.err, data'[s], unsaved_files')
                EXCEPT !.name = var_name,
                       !.had = var_name \in DOMAIN data[s],
                       !.rest_same = RestSame(data[s], data'[s], var_name)]
  /\ sweep' = NoSweep
  /\ scope' = scope_after(scope, data'[s])
  /\ UNCHANGED <<impl, filename, files, saved>>

\* faulty variant: the first value whose add fails ends the loop
RECURSIVE add_multiple_abort(_, _, _)
add_multiple_abort(sc, d, variables) ==
  IF variables = <<>> THEN d
  ELSE LET r == add_(sc, d, Head(variables)) IN
       IF r.err # NoExc THEN d ELSE add_multiple_abort(sc, r.data, Tail(variables))

\* add_multiple(*variables): for variable in variables: self.add(variable).
\* add catches what it raises, so the loop always reaches the next value.
RECURSIVE add_multiple_(_, _, _)
add_multiple_(sc, d, variables) ==
  IF variables = <<>> THEN d
  ELSE add_multiple_(sc, add_(sc, d, Head(variables)).data, Tail(variables))

ArgLists == UNION {[1..n -> Objects] : n \in 0..MaxArgs}

\* after the loop add_multiple calls add_to_unsaved(), whatever the adds did
add_multiple(s, variables) ==
  /\ Idle
  /\ data' = [data EXCEPT ![s] = add_multiple_(scope, data[s], variables)]
  /\ unsaved_files' = add_to_unsaved(unsaved_files, filename[s])
  /\ last' = [Record("add_multiple", s, x1, NoExc, NoExc, data'[s], unsaved_files')
                EXCEPT !.args = variables, !.keys0 = DOMAIN data[s]]
  /\ sweep' = NoSweep
  /\ scope' = scope_after(scope, data'[s])
  /\ UNCHANGED <<impl, filename, files, saved>>

\* faulty variant: update sets every key of the mapping, whatever overwrite is
update_always(d, mapping, overwrite) ==
  [n \in (DOMAIN d) \cup (DOMAIN mapping) |->
     IF n \in DOMAIN mapping THEN mapping[n] ELSE d[n]]

\* update(mapping, overwrite=True): for each key of the mapping, set
\* entries[key] = mapping[key] if overwrite, else only when key is not an entry
update_(d, mapping, overwrite) ==
  [n \in (DOMAIN d) \cup (DOMAIN mapping) |->
     IF n \in DOMAIN mapping /\ (overwrite \/ n \notin DOMAIN d)
     THEN mapping[n] ELSE d[n]]

Mappings == UNION {[ks -> Objects] : ks \in SUBSET Names}

\* update marks the path dirty if any entry changed
update(s, mapping, overwrite) ==
  /\ Idle
  /\ data' = [data EXCEPT ![s] = update_(data[s], mapping, overwrite)]
  /\ unsaved_files' = IF data'[s] # data[s]
                      THEN add_to_unsaved(unsaved_files, filename[s])
                      ELSE unsaved_files
  /\ last' = [Record("update", s, x1, NoExc, NoExc, data'[s], unsaved_files')
                EXCEPT !.mapping = mapping, !.overwrite = overwrite,
                       !.data0 = data[s]]
  /\ sweep' = NoSweep
  /\ scope' = scope_after(scope, data'[s])
  /\ UNCHANGED <<impl, filename, files, saved>>

clear(s) ==
  /\ Idle
  /\ data' = [data EXCEPT ![s] = EmptyDict]
  /\ unsaved_files' = add_to_unsaved(unsaved_files, filename[s])
  /\ last' = Record("clear", s, x1, NoExc, NoExc, data'[s], unsaved_files')
  /\ sweep' = NoSweep
  /\ scope' = scope_after(scope, data'[s])
  /\ UNCHANGED <<impl, filename, files, saved>>

save(s, io, perr) ==
  LET f == filename[s]
      r == save_(files, unsaved_files, f, data[s], io, perr) IN
  /\ Idle
  /\ files' = r.files
  /\ unsaved_files' = r.unsaved
  /\ saved' = IF r.err = NoExc
              THEN [saved EXCEPT ![f] = [by |-> s, vals |-> ValuesOf(data[s])]]
              ELSE IF r.files[f] # files[f] THEN [saved EXCEPT ![f] = NoSave]
              ELSE saved
  /\ last' = Record("save", s, x1, r.err, r.raised, data[s], unsaved_files')
  /\ sweep' = NoSweep
  /\ scope' = scope_after(scope, data[s])
  /\ UNCHANGED <<impl, filename, data>>

load(s) ==
  LET f == filename[s]
      r == load_(files, unsaved_files, f, data[s]) IN
  /\ Idle
  /\ data' = [data EXCEPT ![s] = r.data]
  /\ unsaved_files' = r.unsaved
  /\ last' = Record("load", s, x1, r.err, r.raised, data'[s], unsaved_files')
  /\ sweep' = NoSweep
  /\ scope' = scope_after(scope, data'[s])
  /\ UNCHANGED <<impl, filename, files, saved>>

\* __enter__(): load the file if it exists, else register the path.
\* core logs and re-raises what load raises; legacy logs it and returns None.
enter_(fs, u, f, d) ==
  IF fs[f].kind = "absent"
  THEN [data |-> d, unsaved |-> add_to_unsaved(u, f), err |-> NoExc, raised |-> NoExc]
  ELSE LET r == load_(fs, u, f, d) IN
       IF impl = "core" THEN r ELSE [r EXCEPT !.raised = NoExc]

enter(s) ==
  LET f == filename[s]
      r == enter_(files, unsaved_files, f, data[s]) IN
  /\ Idle
  /\ data' = [data EXCEPT ![s] = r.data]
  /\ unsaved_files' = r.unsaved
  /\ last' = Record("enter", s, x1, r.err, r.raised, data'[s], unsaved_files')
  /\ sweep' = NoSweep
  /\ scope' = scope_after(scope, data'[s])
  /\ UNCHANGED <<impl, filename, files, saved>>

\* faulty variant: __exit__ lets what save raises through
exit_reraise(fs, u, f, d, io, perr) == save_(fs, u, f, d, io, perr)

\* __exit__(exc_type, exc_val, exc_tb): try: self.save() except Exception: log
exit_(fs, u, f, d, io, perr) ==
  [save_(fs, u, f, d, io, perr) EXCEPT !.raised = NoExc]

\* exc: whether the body of the with block raised
exit(s, exc, io, perr) ==
  LET f == filename[s]
      r == exit_(files, unsaved_files, f, data[s], io, perr) IN
  /\ Idle
  /\ files' = r.files
  /\ unsaved_files' = r.unsaved
  /\ saved' = IF r.err = NoExc
              THEN [saved EXCEPT ![f] = [by |-> s, vals |-> ValuesOf(data[s])]]
              ELSE IF r.files[f] # files[f] THEN [saved EXCEPT ![f] = NoSave]
              ELSE saved
  /\ last' = [Record("exit", s, x1, r.err, r.raised, data[s], unsaved_files')
                EXCEPT !.exc = exc]
  /\ sweep' = NoSweep
  /\ scope' = scope_after(scope, data[s])
  /\ UNCHANGED <<impl, filename, data>>

\* One pass of the sweep's loop body for path f:
\*   core:   with VariableDb(f) as db: db.load(); db.save()
\*   legacy: with VariableDb(f) as file: file.save()
\* io1 and io2 are the outcomes of open() in the body's save and in __exit__'s.
\* Result [files, unsaved, raised, ok]; ok: every save of the pass succeeded.
sweep_pass_(fs, u, f, io1, io2) ==
  LET u1 == register(u, f)
      exists == fs[f].kind # "absent"
      \* __enter__
      en == IF exists THEN load_(fs, u1, f, EmptyDict)
            ELSE [data |-> EmptyDict, unsaved |-> add_to_unsaved(u1, f),
                  err |-> NoExc, raised |-> NoExc]
  IN
  IF impl = "core"
  THEN IF en.raised # NoExc
       THEN \* __enter__ logs and re-raises; __exit__ is not called
            [files |-> fs, unsaved |-> en.unsaved, raised |-> en.raised, ok |-> FALSE]
       ELSE LET ld == load_(fs, en.unsaved, f, en.data)
                s1 == save_(fs, ld.unsaved, f, ld.data, io1, "PicklingError")
                s2 == save_(s1.files, s1.unsaved, f, ld.data, io2, "PicklingError")
            IN [files |-> s2.files, unsaved |-> s2.unsaved, raised |-> NoExc,
                ok |-> s1.err = NoExc /\ s2.err = NoExc]
  ELSE IF en.raised # NoExc
       THEN \* __enter__ swallows the exception and returns None: file.save()
            \* raises AttributeError, __exit__ saves, the exception propagates
            LET s2 == save_(fs, en.unsaved, f, en.data, io2, "PicklingError")
            IN [files |-> s2.files, unsaved |-> s2.unsaved,
                raised |-> "AttributeError", ok |-> FALSE]
       ELSE LET s1 == save_(fs, en.unsaved, f, en.data, io1, "PicklingError")
                s2 == save_(s1.files, s1.unsaved, f, en.data, io2, "PicklingError")
            IN [files |-> s2.files, unsaved |-> s2.unsaved, raised |-> NoExc,
                ok |-> s1.err = NoExc /\ s2.err = NoExc]

\* save_all_open_files(): the for statement takes its iterable
save_all_open_files ==
  /\ Idle
  /\ sweep' = [active |-> TRUE,
               todo |-> IF impl = "core" THEN unsaved_files ELSE {},
               idx |-> 0,
               start |-> UnsavedPaths(unsaved_files),
               allok |-> TRUE, seen |-> {}, again |-> FALSE]
  /\ last' = Record("sweep_start", 0, x1, NoExc, NoExc, EmptyDict, unsaved_files)
  /\ UNCHANGED <<impl, scope, filename, data, files, unsaved_files, saved>>

\* the path the loop takes next: any element left of the copied set (core),
\* or the element at the iterator's index in the live list (legacy)
SweepNext ==
  IF impl = "core" THEN sweep.todo
  ELSE IF sweep.idx < Len(unsaved_files) THEN {unsaved_files[sweep.idx + 1]} ELSE {}

save_all_open_files_pass(f, io1, io2) ==
  LET r == sweep_pass_(files, unsaved_files, f, io1, io2) IN
  /\ sweep.active
  /\ f \in SweepNext
  /\ impl = "legacy" => Len(unsaved_files) < MaxList
  /\ files' = r.files
  /\ unsaved_files' = r.unsaved
  /\ saved' = [saved EXCEPT ![f] = IF r.files[f] # files[f] THEN NoSave ELSE @]
  /\ sweep' = [sweep EXCEPT !.active = (r.raised = NoExc),
                            !.todo = @ \ {f},
                            !.idx = IF impl = "core" THEN 0 ELSE @ + 1,
                            !.allok = @ /\ r.ok,
                            !.seen = @ \cup {f},
                            !.again = @ \/ f \in sweep.seen]
  /\ last' = Record(IF r.raised = NoExc THEN "sweep_pass" ELSE "sweep", 0, x1,
                    r.raised, r.raised, EmptyDict, unsaved_files')
  /\ UNCHANGED <<impl, scope, filename, data>>

\* the loop is exhausted and save_all_open_files returns
save_all_open_files_return ==
  /\ sweep.active
  /\ SweepNext = {}
  /\ sweep' = [sweep EXCEPT !.active = FALSE]
  /\ last' = Record("sweep", 0, x1, NoExc, NoExc, EmptyDict, unsaved_files)
  /\ UNCHANGED <<impl, scope, filename, data, files, unsaved_files, saved>>

Next ==
  \/ \E f \in Paths : VariableDb(f)
  \/ \E s \in Stores : clear(s)
  \/ \E s \in Stores, io \in OpenOutcomes : save(s, io, "PicklingError")
  \/ \E s \in Stores : load(s)
  \/ save_all_open_files
  \/ \E f \in Paths, io1, io2 \in OpenOutcomes : save_all_open_files_pass(f, io1, io2)
  \/ save_all_open_files_return

Spec == Init /\ [][Next]_vars

NextStore ==
  \/ \E s \in Stores, v \in Objects : add(s, v)
  \/ \E s \in Stores, v \in Objects : delete(s, v)
  \/ \E s \in Stores, v \in Objects : replace(s, v)
  \/ \E s \in Stores : clear(s)
  \/ \E s \in Stores, io \in OpenOutcomes, perr \in DumpErrors : save(s, io, perr)
  \/ \E s \in Stores : load(s)
  \/ \E s \in Stores : enter(s)
  \/ \E s \in Stores, var_name \in Names : add_by_name(s, var_name)
  \/ \E s \in Stores, exc \in BOOLEAN, io \in OpenOutcomes, perr \in DumpErrors :
        exit(s, exc, io, perr)

SpecStore == InitStore /\ [][NextStore]_vars

\* One instance taking add_multiple calls between deletes and saves.
NextMulti ==
  \/ \E s \in Stores, variables \in ArgLists : add_multiple(s, variables)
  \/ \E s \in Stores, variable \in Objects : delete(s, variable)
  \/ \E s \in Stores, io \in OpenOutcomes, perr \in DumpErrors : save(s, io, perr)

SpecMulti == InitStore /\ [][NextMulti]_vars

\* One new instance on a path without a file, taking update calls between
\* clears and saves (update does not use the scope).
InitUpdate ==
  /\ InitStore
  /\ scope = <<>>
  /\ files["p.db"] = Absent

NextUpdate ==
  \/ \E s \in Stores, mapping \in Mappings, overwrite \in BOOLEAN :
        update(s, mapping, overwrite)
  \/ \E s \in Stores : clear(s)
  \/ \E s \in Stores, io \in OpenOutcomes, perr \in DumpErrors : save(s, io, perr)

SpecUpdate == InitUpdate /\ [][NextUpdate]_vars

\* Two instances on the same path, right after both constructors have returned:
\* what one saves the other can load.
InitPair ==
  /\ impl \in Impls
  /\ scope \in Scopes
  /\ filename = <<"p.db", "p.db">>
  /\ data = <<EmptyDict, EmptyDict>>
  /\ files = [p \in Paths |-> Absent]
  /\ unsaved_files = register(register(IF impl = "core" THEN {} ELSE <<>>, "p.db"), "p.db")
  /\ sweep = NoSweep
  /\ saved = [p \in Paths |-> NoSave]
  /\ last = StartRecord

NextPair ==
  \/ \E s \in Stores, v \in Objects : add(s, v)
  \/ \E s \in Stores : clear(s)
  \/ \E s \in Stores, io \in OpenOutcomes, perr \in DumpErrors : save(s, io, perr)
  \/ \E s \in Stores : load(s)

SpecPair == InitPair /\ [][NextPair]_vars

\* ------------------------------------------------------------------ claims
LastPath == filename[last.self]
LastName == get_variable_name(scope, last.arg)
\* the argument's first binding in the scope, stated on the scope itself
FirstBinding(i) ==
  /\ scope[i].val.id = last.arg.id
  /\ \A j \in 1..(i - 1) : scope[j].val.id # last.arg.id

\* C1 (as stated): after add(v), get(n) returns v for every name n that the
\* scope binds to v by identity.
C1_AddThenGetAnyName ==
  last.op = "add" =>
    \A i \in DOMAIN scope :
      scope[i].val.id = last.arg.id
        => get(data[last.self], scope[i].name, PyNone) = last.arg

\* C1 (amended): after add(v), get(n) returns v when n is the first name the
\* scope binds to v by identity and n was not an entry before the call.
C1_AddThenGetFirstName ==
  last.op = "add" =>
    \A i \in DOMAIN scope :
      (FirstBinding(i) /\ ~last.had)
        => get(data[last.self], scope[i].name, PyNone) = last.arg

\* an add of an object bound under two names, stored under the first only
C1_Witness ==
  /\ last.op = "add"
  /\ ~last.had
  /\ \E i, j \in DOMAIN scope : i < j /\ FirstBinding(i)
        /\ scope[j].val.id = last.arg.id
        /\ get(data[last.self], scope[i].name, PyNone) = last.arg
        /\ scope[j].name \notin DOMAIN data[last.self]

\* C2: after a save() that succeeded, a freshly constructed store on the same
\* path that calls load() holds entries equal by value to the saved ones.
C2_SaveLoadRoundTrip ==
  (last.op = "load" /\ last.fresh /\ saved[LastPath] # NoSave) =>
    /\ last.err = NoExc
    /\ ValuesOf(data[last.self]) = saved[LastPath].vals

\* another instance saved entries the caller had added; this one, still empty,
\* loaded them as new objects
C2_Witness ==
  /\ last.op = "load"
  /\ last.fresh
  /\ saved[LastPath].by \in Stores \ {last.self}
  /\ \E n \in DOMAIN data[saved[LastPath].by] :
        /\ data[saved[LastPath].by][n].id # 0
        /\ n \in DOMAIN data[last.self]
        /\ data[last.self][n].val = data[saved[LastPath].by][n].val
        /\ data[last.self][n] # data[saved[LastPath].by][n]

\* C3: add of a value whose name is already an entry fails with a
\* DuplicateKeyError (KeyError) that reaches the caller.
C3_DuplicateAddRaises ==
  (last.op = "add" /\ last.had) => last.raised = "KeyError"

\* C4: after delete(v) of a present name the name is absent; delete of a name
\* that is not an entry fails with a NotFoundError (KeyError) that reaches the
\* caller.
C4_DeleteRemovesOrRaises ==
  (last.op = "delete" /\ LastName # NoName) =>
    /\ LastName \notin DOMAIN data[last.self]
    /\ ~last.had => last.raised = "KeyError"

\* C5: delete of an argument that names no entry (the scope does not bind it)
\* raises a type/value-mismatch error to the caller; it never does nothing
\* silently.
C5_DeleteUnresolvedRaises ==
  (last.op = "delete" /\ LastName = NoName) =>
    last.raised \in {"ValueError", "TypeError"}

\* C6: after a successful save() on a store with path p, p is not in the dirty
\* registry, also when several instances were constructed on p.
C6_SavedPathIsClean ==
  (last.op = "save" /\ last.err = NoExc) => ~InUnsaved(LastPath)

\* C7: a save() that fails with an I/O or serialization failure leaves the
\* dirty registry unchanged and no error reaches the caller.
C7_FailedSaveKeepsRegistrySilently ==
  (last.op = "save" /\ last.err # NoExc) =>
    /\ last.unsaved_same
    /\ last.raised = NoExc

\* C8: the sweep passes over every path that was in the dirty registry when it
\* started, and when every save succeeded none of them is left in the registry
\* after it returns.
C8_SweepCleansEveryStartPath ==
  (last.op = "sweep" /\ last.raised = NoExc /\ sweep.allok) =>
    \A p \in sweep.start : p \in sweep.seen /\ ~InUnsaved(p)

\* C9: load() of an absent, corrupt, empty/truncated or non-mapping file never
\* raises to the caller and leaves entries and the dirty registry as they were.
BadKinds == {"absent", "corrupt", "truncated", "nondict"}
C9_FailedLoadIsSilent ==
  (last.op = "load" /\ files[LastPath].kind \in BadKinds) =>
    /\ last.raised = NoExc
    /\ last.data_same
    /\ last.unsaved_same

\* C10: after a successful load() entries equal exactly the mapping persisted
\* at the path (nothing of the old entries is kept) and the path is in the
\* dirty registry.
C10_LoadReplacesWholesale ==
  (last.op = "load" /\ last.err = NoExc) =>
    /\ files[LastPath].kind = "dict"
    /\ {<<n, data[last.self][n].val>> : n \in DOMAIN data[last.self]}
         = files[LastPath].blob
    /\ \A n \in DOMAIN data[last.self] : data[last.self][n].id = 0
    /\ InUnsaved(LastPath)

\* a load that dropped an entry the file does not hold
C10_Witness ==
  /\ last.op = "load"
  /\ last.err = NoExc
  /\ last.lost
  /\ InUnsaved(LastPath)

C13_KeysAreNonEmptyStrings ==
  \A s \in Stores : \A n \in DOMAIN data[s] : n # ""

\* C14: add_multiple applies add to its values in order and a value whose add
\* fails (no name, or a name already in entries) is skipped without ending the
\* call: every value that resolves to a name is an entry afterwards, bound to
\* that value unless the name was an entry before, and nothing else is added.
ArgName(i) == get_variable_name(scope, last.args[i])
C15_ReplaceNeverCreates ==
  (last.op = "replace" /\ LastName # NoName) =>
    /\ last.rest_same
    /\ ~last.had =>
         /\ last.raised = "KeyError"
         /\ LastName \notin DOMAIN data[last.self]
    /\ last.had =>
         /\ LastName \in DOMAIN data[last.self]
         /\ data[last.self][LastName] = last.arg
         /\ InUnsaved(LastPath)

\* C16: add_by_name(name) raises a not-found error when the scope does not
\* bind name and a duplicate-key error when name is already an entry (both are
\* KeyError; entries and dirty registry stay as they were); otherwise name
\* becomes bound to the scope's value for it, no other entry changes, and the
\* path is in the dirty registry.
NameBound == \E i \in DOMAIN scope : scope[i].name = last.name
C16_AddByName ==
  last.op = "add_by_name" =>
    /\ (~NameBound \/ last.had) =>
         /\ last.raised = "KeyError"
         /\ last.data_same
         /\ last.unsaved_same
    /\ (NameBound /\ ~last.had) =>
         /\ last.raised = NoExc
         /\ last.name \in DOMAIN data[last.self]
         /\ \E i \in DOMAIN scope :
              /\ scope[i].name = last.name
              /\ data[last.self][last.name] = scope[i].val
         /\ last.rest_same
         /\ InUnsaved(LastPath)

\* a name was added by name next to an entry that was already there
C16_Witness ==
  /\ last.op = "add_by_name"
  /\ NameBound
  /\ ~last.had
  /\ last.raised = NoExc
  /\ DOMAIN data[last.self] # {last.name}
  /\ \E i \in DOMAIN scope :
       scope[i].name = last.name /\ data[last.self][last.name] = scope[i].val

\* C17: update(mapping, overwrite): with overwrite every key of the mapping
\* ends up bound to the mapping's value; without it the keys that were entries
\* keep their values and only the missing keys are added; entries whose key is
\* not in the mapping are unchanged in both modes.
C17_Update ==
  last.op = "update" =>
    LET d == data[last.self]
        d0 == last.data0
        m == last.mapping IN
    /\ DOMAIN d = (DOMAIN d0) \cup (DOMAIN m)
    /\ last.overwrite => \A k \in DOMAIN m : d[k] = m[k]
    /\ ~last.overwrite =>
         \A k \in DOMAIN m : d[k] = IF k \in DOMAIN d0 THEN d0[k] ELSE m[k]
    /\ \A k \in (DOMAIN d0) \ (DOMAIN m) : d[k] = d0[k]

\* an update without overwrite kept an entry the mapping binds differently
\* and added a missing key
C17_Witness ==
  /\ last.op = "update"
  /\ ~last.overwrite
  /\ \E k \in (DOMAIN last.mapping) \cap (DOMAIN last.data0) :
       /\ last.mapping[k] # last.data0[k]
       /\ data[last.self][k] = last.data0[k]
  /\ \E k \in (DOMAIN last.mapping) \ (DOMAIN last.data0) :
       data[last.self][k] = last.mapping[k]

\* C18: an add, delete or replace that fails (the value has no name in the
\* scope, add of a name that is an entry, delete or replace of a name that is
\* not) leaves the entries and the dirty registry as they were.
Failed ==
  \/ LastName = NoName
  \/ last.op = "add" /\ last.had
  \/ last.op \in {"delete", "replace"} /\ ~last.had
C18_FailedMutationChangesNothing ==
  (last.op \in ByValue /\ Failed) =>
    /\ last.err # NoExc
    /\ last.data_same
    /\ last.unsaved_same

\* a replace of a name that is not an entry failed on a store that has
\* entries and a clean path, and the path is still clean
C18_Witness ==
  /\ last.op = "replace"
  /\ LastName # NoName
  /\ ~last.had
  /\ last.data_same
  /\ data[last.self] # EmptyDict
  /\ ~InUnsaved(LastPath)

\* C19: between operations, over all interleavings of calls on any number of
\* instances (several on one path included) and the sweep: whenever a live
\* store's entries differ from the mapping persisted at its path, or no
\* mapping is persisted there, the path is in the dirty registry.
C19_DirtyRegistrySound ==
  Idle =>
    \A s \in Stores :
      files[filename[s]] # DictFile(Pickle(data[s])) => InUnsaved(filename[s])

\* C20: save_all_open_files terminates after at most one reload-and-save pass
\* per path that was in the dirty registry when it started, also when saves
\* fail: a running or finished sweep has passed over start paths only, and
\* over none of them twice.
C20_SweepOnePassPerPath ==
  /\ sweep.seen \subseteq sweep.start
  /\ ~sweep.again

\* C21: add_multiple changes the dirty registry only if it changed entries:
\* called with no values, or with values whose adds all fail, it leaves the
\* dirty registry as it was.
C21_AddMultipleFrame ==
  (last.op = "add_multiple" /\ last.data_same) => last.unsaved_same
====
